---- MODULE Spec2Model ----
(***************************************************************************)
(* Chat API: the validated repository layer (app/crud), the message        *)
(* endpoints (app/api/v1/endpoints/messages.py) and the two tables they    *)
(* write (app/models).  Each request runs in its own SQLAlchemy session    *)
(* against one PostgreSQL store; a session's SELECT and its later COMMIT   *)
(* are separate steps, so concurrent sessions interleave between them.     *)
(*                                                                         *)
(* Strings are kept run-length encoded: a string is a sequence of runs     *)
(* [c |-> character, n |-> repeat count], so that the real length limits   *)
(* 200 and 5000 are the ones checked.                                      *)
(***************************************************************************)
EXTENDS Integers, Sequences, FiniteSets, TLC

\* ------------------------------------------------------------------ bounds
\* Largest id the chats / messages autoincrement sequences hand out.
MaxChats == 2
MaxMsgs == 2

\* The database sessions (requests in flight): every race of the handlers
\* below is between two of them.
Sessions == {"s1", "s2"}

\* --------------------------------------------------------------- constants
MAX_TITLE_LENGTH == 200
MAX_TEXT_LENGTH == 5000

\* ----------------------------------------------------------------- strings
Run(c, n) == [c |-> c, n |-> n]

\* str.isspace for the characters of the model's alphabet.
isspace(c) == c \in {" ", "\t"}

\* len(s): the number of characters.
RECURSIVE len(_)
len(s) == IF s = <<>> THEN 0 ELSE Head(s).n + len(Tail(s))

\* str.strip(): scan from the left over whitespace, then from the right.
RECURSIVE lskip(_, _)
lskip(s, i) == IF i <= Len(s) /\ isspace(s[i].c) THEN lskip(s, i + 1) ELSE i

RECURSIVE rskip(_, _, _)
rskip(s, i, j) == IF j >= i /\ isspace(s[j].c) THEN rskip(s, i, j - 1) ELSE j

\* A strip that forgets the right-hand side (str.lstrip).
strip_left_only(s) == SubSeq(s, lskip(s, 1), Len(s))

strip(s) == LET i == lskip(s, 1) IN SubSeq(s, i, rskip(s, i, Len(s)))

\* The inputs tried for a field whose limit is max.  Rejected ones: empty,
\* whitespace only, max + 1, and max + 1 reached through interior whitespace.
Letters(n) == <<Run("a", n)>>
BadInputs(max) ==
    { <<>>,
      <<Run(" ", 1), Run("\t", 1), Run(" ", 2)>>,
      Letters(max + 1),
      <<Run(" ", 1), Run("a", max - 1), Run(" ", 1), Run("a", 1), Run(" ", 1)>> }
\* Accepted ones: exactly max characters with interior whitespace, inside
\* padding; and one character, bare and padded.
PaddedMax(max) ==
    <<Run("\t", 1), Run("a", max - 2), Run(" ", 1), Run("a", 1), Run(" ", 1)>>
GoodInputs(max) ==
    { PaddedMax(max), Letters(1), <<Run(" ", 2), Run("a", 1), Run("\t", 1)>> }

\* Under concurrency two rejected inputs and one accepted one (the padded
\* maximum) are tried per field; the serial specifications try all of them
\* for one field.
FewInputs(max) ==
    { <<Run(" ", 1), Run("\t", 1), Run(" ", 2)>>, Letters(max + 1), PaddedMax(max) }
Titles == FewInputs(MAX_TITLE_LENGTH)
Texts == FewInputs(MAX_TEXT_LENGTH)
AllTitles == BadInputs(MAX_TITLE_LENGTH) \cup GoodInputs(MAX_TITLE_LENGTH)
AllTexts == BadInputs(MAX_TEXT_LENGTH) \cup GoodInputs(MAX_TEXT_LENGTH)

\* chat_id / message_id path parameters tried by the callers.
ChatIdArgs == 1..MaxChats
MsgIdArgs == 1..MaxMsgs

\* ------------------------------------------------------------------- state
VARIABLES
    chats,      \* committed rows of table chats: [id, title]
    messages,   \* committed rows of table messages: [id, chat_id, text]
    chat_seq,   \* last value of the chats.id autoincrement sequence
    msg_seq,    \* last value of the messages.id autoincrement sequence
    pc,         \* per session: where its handler stands
    loc,        \* per session: the handler's local variables
    last,       \* outcome of the call that completed most recently
    now         \* the store's clock, as read by func.now(); the runs
                \* explored from Init fit within one reading of it

vars == <<chats, messages, chat_seq, msg_seq, pc, loc, last, now>>

\* created_at has server_default=func.now(): the start time of the
\* transaction that inserts the row.
ChatRow(id, title, created_at) ==
    [id |-> id, title |-> title, created_at |-> created_at]
MessageRow(id, chat_id, text, created_at) ==
    [id |-> id, chat_id |-> chat_id, text |-> text, created_at |-> created_at]

\* A handler's locals between its SELECT and its COMMIT: the ids it was
\* called with, the text argument as passed and the cleaned text; ts is the
\* time its transaction began (the session begins one at its first query).
\* chat holds the row a lookup loaded (at most one).
NoLoc == [chat_id |-> 0, msg_id |-> 0, arg |-> <<>>, text |-> <<>>, ts |-> 0, chat |-> {}]
Loc(chat_id, msg_id, arg, text) ==
    [chat_id |-> chat_id, msg_id |-> msg_id, arg |-> arg, text |-> text, ts |-> now,
     chat |-> {}]

\* The outcome handed to the caller, with the call it answers: op, the id
\* path parameter (0 when the call has none) and the string argument as
\* passed.  exc is the Python exception class (or the HTTP status of an
\* HTTPException), reason the raise statement that fired.  What the call did
\* to its transaction is recorded with it: commits counts its db.commit()
\* calls that succeeded, wrote says that a write (db.add / db.delete and
\* its flush) was started, rollback that db.rollback() ran before the
\* call ended.
Call(op, id, arg) == [op |-> op, id |-> id, arg |-> arg]
Returned(call, ret) ==
    [op |-> call.op, id |-> call.id, arg |-> call.arg,
     status |-> "ok", exc |-> "none", reason |-> "none", ret |-> ret,
     commits |-> 0, wrote |-> FALSE, rollback |-> FALSE]
Raised(call, exc, reason) ==
    [op |-> call.op, id |-> call.id, arg |-> call.arg,
     status |-> "raise", exc |-> exc, reason |-> reason, ret |-> [kind |-> "none"],
     commits |-> 0, wrote |-> FALSE, rollback |-> FALSE]
\* return after db.commit()
Committed(call, ret) == [Returned(call, ret) EXCEPT !.commits = 1, !.wrote = TRUE]
\* except: db.rollback(); raise
RolledBack(call, exc, reason, wrote) ==
    [Raised(call, exc, reason) EXCEPT !.wrote = wrote, !.rollback = TRUE]
\* a failed db.commit() whose exception leaves the method without a rollback
NotRolledBack(call, exc, reason) == [Raised(call, exc, reason) EXCEPT !.wrote = TRUE]

\* A returned entity is named by its id: db.refresh() loads its attributes
\* from the stored row, so they are read from the table in the state reached.
RetChat(row) == [kind |-> "chat", id |-> row.id]
RetMessage(row) == [kind |-> "message", id |-> row.id]
RetBool(b) == [kind |-> "bool", v |-> b]
RetInt(n) == [kind |-> "int", v |-> n]
RetNone == [kind |-> "none"]

Init ==
    /\ chats = {}
    /\ messages = {}
    /\ chat_seq = 0
    /\ msg_seq = 0
    /\ pc = [p \in Sessions |-> "idle"]
    /\ loc = [p \in Sessions |-> NoLoc]
    /\ last = Returned(Call("init", 0, <<>>), RetNone)
    /\ now = 0

\* ------------------------------------------------------------ store access
\* db.query(Chat).filter(Chat.id == chat_id).first()
chat_first(chat_id) ==
    IF \E c \in chats : c.id = chat_id
    THEN {CHOOSE c \in chats : c.id = chat_id}
    ELSE {}

\* db.query(Message).filter(Message.id == message_id).first()
message_first(message_id) ==
    IF \E m \in messages : m.id = message_id
    THEN {CHOOSE m \in messages : m.id = message_id}
    ELSE {}

\* ---------------------------------------------------------- validation
\* CRUDChat.create_with_validation, the two checks on the stripped title.
\* Off by one upwards: 201 characters pass.
check_title_accepts_longer(title) ==
    IF title = <<>> THEN "title_empty"
    ELSE IF len(title) > MAX_TITLE_LENGTH + 1 THEN "title_too_long"
    ELSE "ok"

check_title(title) ==
    IF title = <<>> THEN "title_empty"
    ELSE IF len(title) > MAX_TITLE_LENGTH THEN "title_too_long"
    ELSE "ok"

\* CRUDMessage.create_with_validation, the two checks on the stripped text.
\* Off by one downwards: 5000 characters are rejected.
check_text_rejects_max(text) ==
    IF text = <<>> THEN "text_empty"
    ELSE IF len(text) >= MAX_TEXT_LENGTH THEN "text_too_long"
    ELSE "ok"

check_text(text) ==
    IF text = <<>> THEN "text_empty"
    ELSE IF len(text) > MAX_TEXT_LENGTH THEN "text_too_long"
    ELSE "ok"

\* Message.validate_text (@validates('text')), run by the Message constructor:
\* strips again and repeats the two checks.
validate_text(text) ==
    LET t == strip(text) IN
    IF t = <<>> THEN "text_empty"
    ELSE IF len(t) > MAX_TEXT_LENGTH THEN "text_too_long"
    ELSE "ok"

\* Message.validate_chat_id (@validates('chat_id')).
validate_chat_id(chat_id) == IF chat_id <= 0 THEN "chat_id_not_positive" ELSE "ok"

\* MessageCreate (pydantic): the 'before' validator strips and rejects an
\* empty value, then min_length=1 / max_length=5000 apply to the stripped one.
MessageCreate_check(x) ==
    LET v == strip(x) IN
    IF v = <<>> THEN "text_empty"
    ELSE IF len(v) < 1 THEN "text_empty"
    ELSE IF len(v) > MAX_TEXT_LENGTH THEN "text_too_long"
    ELSE "ok"

\* ------------------------------------------------------ store constraints
\* Without the foreign key every INSERT passes.
fk_not_enforced(chat_id) == TRUE

\* fk_message_chat_id: messages.chat_id references chats.id; checked by the
\* store when the INSERT is flushed.
fk_message_chat_id(chat_id) == \E c \in chats : c.id = chat_id

\* A delete of the chat row that leaves its messages behind.
cascade_none(chat_id) == messages

\* Deleting a chat row: relationship cascade="all, delete-orphan" and the
\* foreign key's ON DELETE CASCADE remove every message of that chat.
cascade_delete(chat_id) == {m \in messages : m.chat_id # chat_id}

Finish(p, outcome) ==
    /\ pc' = [pc EXCEPT ![p] = "idle"]
    /\ loc' = [loc EXCEPT ![p] = NoLoc]
    /\ last' = outcome
    /\ now' = now

Continue(p, at, locals) ==
    /\ pc' = [pc EXCEPT ![p] = at]
    /\ loc' = [loc EXCEPT ![p] = locals]
    /\ UNCHANGED <<chats, messages, chat_seq, msg_seq, last, now>>

\* --------------------------------------------------------- CRUDChat
\* The row written before the title is validated.
CRUDChat_create_before_validation(p, t) ==
    /\ pc[p] = "idle"
    /\ chat_seq < MaxChats
    /\ chat_seq' = chat_seq + 1
    /\ chats' = chats \cup {ChatRow(chat_seq + 1, strip(t), now)}
    /\ LET call == Call("chat.create_with_validation", 0, t) IN
       IF check_title(strip(t)) # "ok"
       THEN Finish(p, Raised(call, "ValueError", check_title(strip(t))))
       ELSE Finish(p, Committed(call, RetChat(ChatRow(chat_seq + 1, strip(t), now))))
    /\ UNCHANGED <<messages, msg_seq>>

\* create_with_validation: strip, validate, INSERT, commit, refresh.  No
\* statement precedes the INSERT, so the call is a single transaction step.
CRUDChat_create_with_validation(p, t) ==
    /\ pc[p] = "idle"
    /\ LET title == strip(t)
           verdict == check_title(title)
           chat == ChatRow(chat_seq + 1, title, now)
           call == Call("chat.create_with_validation", 0, t)
       IN IF verdict # "ok"
          THEN /\ Finish(p, Raised(call, "ValueError", verdict))
               /\ UNCHANGED <<chats, messages, chat_seq, msg_seq>>
          ELSE /\ chat_seq < MaxChats
               /\ chat_seq' = chat_seq + 1
               /\ chats' = chats \cup {chat}
               /\ Finish(p, Committed(call, RetChat(chat)))
               /\ UNCHANGED <<messages, msg_seq>>

\* A missing chat answered with False instead of an exception.
CRUDChat_delete_returns_false(p, chat_id) ==
    /\ pc[p] = "idle"
    /\ IF chat_first(chat_id) = {}
       THEN /\ Finish(p, Returned(Call("chat.delete_with_messages", chat_id, <<>>),
                                  RetBool(FALSE)))
            /\ UNCHANGED <<chats, messages, chat_seq, msg_seq>>
       ELSE Continue(p, "chat_delete", Loc(chat_id, 0, <<>>, <<>>))

\* delete_with_messages, the lookup: raises ValueError when the chat is absent.
CRUDChat_delete_with_messages(p, chat_id) ==
    /\ pc[p] = "idle"
    /\ IF chat_first(chat_id) = {}
       THEN /\ Finish(p, Raised(Call("chat.delete_with_messages", chat_id, <<>>),
                                "ValueError", "chat_not_found"))
            /\ UNCHANGED <<chats, messages, chat_seq, msg_seq>>
       ELSE Continue(p, "chat_delete", Loc(chat_id, 0, <<>>, <<>>))

\* delete_with_messages, db.delete(chat); db.commit().  When a concurrent
\* session removed the row first, the DELETE matches no row: SQLAlchemy warns
\* and the call returns True, or raises StaleDataError, which the except
\* branch rolls back and re-raises.
CRUDChat_delete_commit(p) ==
    /\ pc[p] = "chat_delete"
    /\ LET chat_id == loc[p].chat_id
           call == Call("chat.delete_with_messages", chat_id, <<>>)
       IN IF chat_first(chat_id) # {}
          THEN /\ chats' = {c \in chats : c.id # chat_id}
               /\ messages' = cascade_delete(chat_id)
               /\ Finish(p, Committed(call, RetBool(TRUE)))
               /\ UNCHANGED <<chat_seq, msg_seq>>
          ELSE /\ \/ Finish(p, Committed(call, RetBool(TRUE)))
                  \/ Finish(p, RolledBack(call, "StaleDataError", "stale", TRUE))
               /\ UNCHANGED <<chats, messages, chat_seq, msg_seq>>

\* --------------------------------------------------------- CRUDMessage
\* The text checked before the chat is looked up.
text_checked_first(chat_id, text) ==
    IF check_text(text) # "ok" THEN check_text(text)
    ELSE IF chat_first(chat_id) = {} THEN "chat_not_found"
    ELSE "ok"

\* create_with_validation, which failure is raised: the chat lookup comes
\* before the checks on the stripped text.
create_verdict(chat_id, text) ==
    IF chat_first(chat_id) = {} THEN "chat_not_found" ELSE check_text(text)

\* create_with_validation up to the Message constructor: chat lookup, strip
\* and validate the text, then the model's own validators.
CRUDMessage_create_with_validation(p, chat_id, x) ==
    /\ pc[p] = "idle"
    /\ LET text == strip(x)
           verdict == create_verdict(chat_id, text)
           call == Call("message.create_with_validation", chat_id, x)
       IN IF verdict # "ok"
          THEN /\ Finish(p, Raised(call, "ValueError", verdict))
               /\ UNCHANGED <<chats, messages, chat_seq, msg_seq>>
          ELSE IF validate_chat_id(chat_id) # "ok"
          THEN /\ Finish(p, Raised(call, "ValueError", validate_chat_id(chat_id)))
               /\ UNCHANGED <<chats, messages, chat_seq, msg_seq>>
          ELSE IF validate_text(text) # "ok"
          THEN /\ Finish(p, Raised(call, "ValueError", validate_text(text)))
               /\ UNCHANGED <<chats, messages, chat_seq, msg_seq>>
          ELSE Continue(p, "message_commit", Loc(chat_id, 0, x, strip(text)))

\* create_with_validation, db.add; db.commit; db.refresh.  The INSERT draws
\* the id from the sequence (also when it then fails) and the store checks
\* the foreign key; a violation surfaces as IntegrityError, uncaught here.
CRUDMessage_create_commit(p) ==
    /\ pc[p] = "message_commit"
    /\ msg_seq < MaxMsgs
    /\ msg_seq' = msg_seq + 1
    /\ LET message == MessageRow(msg_seq + 1, loc[p].chat_id, loc[p].text, loc[p].ts)
           call == Call("message.create_with_validation", loc[p].chat_id, loc[p].arg)
       IN IF fk_message_chat_id(loc[p].chat_id)
          THEN /\ messages' = messages \cup {message}
               /\ Finish(p, Committed(call, RetMessage(message)))
          ELSE /\ messages' = messages
               /\ Finish(p, NotRolledBack(call, "IntegrityError", "fk_violation"))
    /\ UNCHANGED <<chats, chat_seq>>

\* A bulk DELETE without its filter on the chat.
CRUDMessage_delete_by_chat_unfiltered(p, chat_id) ==
    /\ pc[p] = "idle"
    /\ messages' = {}
    /\ Finish(p, Committed(Call("message.delete_by_chat", chat_id, <<>>),
                          RetInt(Cardinality(messages))))
    /\ UNCHANGED <<chats, chat_seq, msg_seq>>

\* delete_by_chat: one bulk DELETE and its commit; returns the row count.
CRUDMessage_delete_by_chat(p, chat_id) ==
    /\ pc[p] = "idle"
    /\ messages' = {m \in messages : m.chat_id # chat_id}
    /\ Finish(p, Committed(Call("message.delete_by_chat", chat_id, <<>>),
                          RetInt(Cardinality({m \in messages : m.chat_id = chat_id}))))
    /\ UNCHANGED <<chats, chat_seq, msg_seq>>

\* ------------------------------------------------- endpoints/messages.py
\* create_message up to the Message constructor.  FastAPI validates the body
\* as MessageCreate before the handler runs (422); the handler then looks the
\* chat up (404) and builds the Message from the stripped text; a validator
\* error inside the try block becomes a 500 after rollback.
create_message(p, chat_id, x) ==
    /\ pc[p] = "idle"
    /\ LET text == strip(strip(x))
           call == Call("endpoint.create_message", chat_id, x)
       IN IF MessageCreate_check(x) # "ok"
          THEN /\ Finish(p, Raised(call, "HTTP422", MessageCreate_check(x)))
               /\ UNCHANGED <<chats, messages, chat_seq, msg_seq>>
          ELSE IF chat_first(chat_id) = {}
          THEN /\ Finish(p, Raised(call, "HTTP404", "chat_not_found"))
               /\ UNCHANGED <<chats, messages, chat_seq, msg_seq>>
          ELSE IF validate_chat_id(chat_id) # "ok"
          THEN /\ Finish(p, RolledBack(call, "HTTP500", validate_chat_id(chat_id), FALSE))
               /\ UNCHANGED <<chats, messages, chat_seq, msg_seq>>
          ELSE IF validate_text(text) # "ok"
          THEN /\ Finish(p, RolledBack(call, "HTTP500", validate_text(text), FALSE))
               /\ UNCHANGED <<chats, messages, chat_seq, msg_seq>>
          ELSE Continue(p, "endpoint_commit", Loc(chat_id, 0, x, strip(text)))

\* create_message, db.add; db.commit; db.refresh inside the try block: a
\* foreign-key violation is rolled back and reported as a 500.
create_message_commit(p) ==
    /\ pc[p] = "endpoint_commit"
    /\ msg_seq < MaxMsgs
    /\ msg_seq' = msg_seq + 1
    /\ LET message == MessageRow(msg_seq + 1, loc[p].chat_id, loc[p].text, loc[p].ts)
           call == Call("endpoint.create_message", loc[p].chat_id, loc[p].arg)
       IN IF fk_message_chat_id(loc[p].chat_id)
          THEN /\ messages' = messages \cup {message}
               /\ Finish(p, Committed(call, RetMessage(message)))
          ELSE /\ messages' = messages
               /\ Finish(p, RolledBack(call, "HTTP500", "fk_violation", TRUE))
    /\ UNCHANGED <<chats, chat_seq>>

\* delete_message, the lookup: 404 when the message is absent.
delete_message(p, message_id) ==
    /\ pc[p] = "idle"
    /\ IF message_first(message_id) = {}
       THEN /\ Finish(p, Raised(Call("endpoint.delete_message", message_id, <<>>),
                                "HTTP404", "message_not_found"))
            /\ UNCHANGED <<chats, messages, chat_seq, msg_seq>>
       ELSE Continue(p, "message_delete", Loc(0, message_id, <<>>, <<>>))

\* A delete that takes the other messages of the same chat with it.
delete_message_commit_whole_chat(p) ==
    /\ pc[p] = "message_delete"
    /\ LET message_id == loc[p].msg_id
           call == Call("endpoint.delete_message", message_id, <<>>)
       IN /\ messages' = {m \in messages :
                             \A d \in message_first(message_id) : m.chat_id # d.chat_id}
          /\ Finish(p, Committed(call, RetNone))
    /\ UNCHANGED <<chats, chat_seq, msg_seq>>

\* delete_message, db.delete(message); db.commit().  A row removed meanwhile
\* (by a concurrent delete or a cascade) makes the DELETE match nothing:
\* SQLAlchemy warns (204) or raises StaleDataError (rollback, 500).
delete_message_commit(p) ==
    /\ pc[p] = "message_delete"
    /\ LET message_id == loc[p].msg_id
           call == Call("endpoint.delete_message", message_id, <<>>)
       IN IF message_first(message_id) # {}
          THEN /\ messages' = {m \in messages : m.id # message_id}
               /\ Finish(p, Committed(call, RetNone))
          ELSE /\ messages' = messages
               /\ \/ Finish(p, Committed(call, RetNone))
                  \/ Finish(p, RolledBack(call, "HTTP500", "stale", TRUE))
    /\ UNCHANGED <<chats, chat_seq, msg_seq>>

\* ------------------------------------------------------------ queries
\* An optional argument left out by the caller (Python default / None).
None == -1

\* .order_by(created_at) / .order_by(desc(created_at)): every sequence of
\* the rows sorted on that one key.  Rows with equal created_at have no
\* order between them in the query, so the store may return them either way.
RECURSIVE order_by(_, _)
order_by(rows, descending) ==
    IF rows = {} THEN {<<>>}
    ELSE LET firsts == {r \in rows : \A q \in rows :
                           IF descending THEN r.created_at >= q.created_at
                                         ELSE r.created_at <= q.created_at}
         IN UNION {{<<r>> \o rest : rest \in order_by(rows \ {r}, descending)} :
                   r \in firsts}

\* A limit applied without the offset.
limit_only(rows, offset, limit) ==
    SubSeq(rows, 1, IF limit < Len(rows) THEN limit ELSE Len(rows))

\* .offset(offset).limit(limit)
offset_limit(rows, offset, limit) ==
    SubSeq(rows, offset + 1,
           IF offset + limit < Len(rows) THEN offset + limit ELSE Len(rows))

\* The query without its filter on the chat.
all_messages(chat_id) == messages

\* .filter(Message.chat_id == chat_id)
filter_chat(chat_id) == {m \in messages : m.chat_id = chat_id}

RetMessages(rows) == [kind |-> "messages", rows |-> rows]
RetChatMessages(chat, rows) == [kind |-> "chat_messages", chat |-> chat, rows |-> rows]
RetCount(chat, n) == [kind |-> "chat_count", chat |-> chat, message_count |-> n]
Paging(skip, limit, order_desc) == [skip |-> skip, limit |-> limit, order_desc |-> order_desc]

\* Python parameter defaults.
GET_WITH_MESSAGES_LIMIT == 20
GET_MULTI_BY_CHAT_LIMIT == 100
GET_LATEST_MESSAGES_LIMIT == 20
GET_MESSAGES_CREATED_AFTER_LIMIT == 100
default(arg, value) == IF arg = None THEN value ELSE arg

\* get_with_messages, the chat lookup: None when the chat is absent, and the
\* messages query is not issued.
CRUDChat_get_with_messages(p, chat_id, limit, offset) ==
    /\ pc[p] = "idle"
    /\ IF chat_first(chat_id) = {}
       THEN /\ Finish(p, Returned(Call("chat.get_with_messages", chat_id,
                                       Paging(offset, limit, TRUE)), RetNone))
            /\ UNCHANGED <<chats, messages, chat_seq, msg_seq>>
       ELSE Continue(p, "chat_messages",
                     [Loc(chat_id, 0, Paging(offset, limit, TRUE), <<>>)
                        EXCEPT !.chat = chat_first(chat_id)])

\* get_with_messages, the messages query: newest first, offset, limit.  It
\* is a second statement of the same READ COMMITTED transaction and sees
\* what is committed when it runs; the chat returned is the row loaded by
\* the lookup.
CRUDChat_get_with_messages_query(p) ==
    /\ pc[p] = "chat_messages"
    /\ \E rows \in order_by(filter_chat(loc[p].chat_id), TRUE) :
         Finish(p, Returned(Call("chat.get_with_messages", loc[p].chat_id, loc[p].arg),
                            RetChatMessages(loc[p].chat,
                                offset_limit(rows, default(loc[p].arg.skip, 0),
                                    default(loc[p].arg.limit, GET_WITH_MESSAGES_LIMIT)))))
    /\ UNCHANGED <<chats, messages, chat_seq, msg_seq>>

\* get_chat_with_message_count: one query, the count is a correlated
\* subquery of it.
CRUDChat_get_chat_with_message_count(p, chat_id) ==
    /\ pc[p] = "idle"
    /\ LET call == Call("chat.get_chat_with_message_count", chat_id, <<>>) IN
       IF chat_first(chat_id) = {}
       THEN Finish(p, Returned(call, RetNone))
       ELSE Finish(p, Returned(call, RetCount(chat_first(chat_id),
                                              Cardinality(filter_chat(chat_id)))))
    /\ UNCHANGED <<chats, messages, chat_seq, msg_seq>>

\* get_multi_with_stats (search omitted): the query selects each chat with
\* two correlated scalar subqueries.  The second one is select(Message)
\* ... .limit(1).scalar_subquery(), which renders every column of messages
\* inside a scalar subquery; PostgreSQL refuses such a statement when it
\* analyses it ("subquery must return only one column"), whatever the
\* tables hold, so .all() raises and no row is returned.
CRUDChat_get_multi_with_stats(p, skip, limit) ==
    /\ pc[p] = "idle"
    /\ Finish(p, Raised(Call("chat.get_multi_with_stats", 0, Paging(skip, limit, TRUE)),
                        "ProgrammingError", "subquery_must_return_one_column"))
    /\ UNCHANGED <<chats, messages, chat_seq, msg_seq>>

\* get_message_count: a plain COUNT, no lookup of the chat.
CRUDChat_get_message_count(p, chat_id) ==
    /\ pc[p] = "idle"
    /\ Finish(p, Returned(Call("chat.get_message_count", chat_id, <<>>),
                          RetInt(Cardinality(filter_chat(chat_id)))))
    /\ UNCHANGED <<chats, messages, chat_seq, msg_seq>>

\* get_message_count_by_chat: the same COUNT, issued from CRUDMessage.
CRUDMessage_get_message_count_by_chat(p, chat_id) ==
    /\ pc[p] = "idle"
    /\ Finish(p, Returned(Call("message.get_message_count_by_chat", chat_id, <<>>),
                          RetInt(Cardinality(filter_chat(chat_id)))))
    /\ UNCHANGED <<chats, messages, chat_seq, msg_seq>>

\* get_multi_by_chat without the order_desc branch: always newest first.
CRUDMessage_get_multi_by_chat_newest_first(p, chat_id, skip, limit, order_desc) ==
    /\ pc[p] = "idle"
    /\ \E rows \in order_by(filter_chat(chat_id), TRUE) :
         Finish(p, Returned(Call("message.get_multi_by_chat", chat_id,
                                 Paging(skip, limit, order_desc)),
                            RetMessages(offset_limit(rows, default(skip, 0),
                                            default(limit, GET_MULTI_BY_CHAT_LIMIT)))))
    /\ UNCHANGED <<chats, messages, chat_seq, msg_seq>>

\* get_multi_by_chat: one query, ordered either way, then offset / limit.
CRUDMessage_get_multi_by_chat(p, chat_id, skip, limit, order_desc) ==
    /\ pc[p] = "idle"
    /\ \E rows \in order_by(filter_chat(chat_id), order_desc) :
         Finish(p, Returned(Call("message.get_multi_by_chat", chat_id,
                                 Paging(skip, limit, order_desc)),
                            RetMessages(offset_limit(rows, default(skip, 0),
                                            default(limit, GET_MULTI_BY_CHAT_LIMIT)))))
    /\ UNCHANGED <<chats, messages, chat_seq, msg_seq>>

\* get_latest_messages: newest first, limit.
CRUDMessage_get_latest_messages(p, chat_id, limit) ==
    /\ pc[p] = "idle"
    /\ \E rows \in order_by(filter_chat(chat_id), TRUE) :
         Finish(p, Returned(Call("message.get_latest_messages", chat_id,
                                 Paging(None, limit, TRUE)),
                            RetMessages(offset_limit(rows, 0,
                                            default(limit, GET_LATEST_MESSAGES_LIMIT)))))
    /\ UNCHANGED <<chats, messages, chat_seq, msg_seq>>

\* The arguments of get_messages_created_after.
After(datetime_filter, limit) ==
    [skip |-> None, limit |-> limit, order_desc |-> FALSE, after |-> datetime_filter]

\* get_messages_created_after without its filter on the chat.
CRUDMessage_get_messages_created_after_any_chat(p, chat_id, datetime_filter, limit) ==
    /\ pc[p] = "idle"
    /\ \E rows \in order_by({m \in messages : m.created_at > datetime_filter}, FALSE) :
         Finish(p, Returned(Call("message.get_messages_created_after", chat_id,
                                 After(datetime_filter, limit)),
                            RetMessages(offset_limit(rows, 0,
                                            default(limit, GET_MESSAGES_CREATED_AFTER_LIMIT)))))
    /\ UNCHANGED <<chats, messages, chat_seq, msg_seq>>

\* get_messages_created_after: the chat's messages created strictly after
\* datetime_filter, oldest first, limit.
CRUDMessage_get_messages_created_after(p, chat_id, datetime_filter, limit) ==
    /\ pc[p] = "idle"
    /\ \E rows \in order_by({m \in filter_chat(chat_id) : m.created_at > datetime_filter},
                            FALSE) :
         Finish(p, Returned(Call("message.get_messages_created_after", chat_id,
                                 After(datetime_filter, limit)),
                            RetMessages(offset_limit(rows, 0,
                                            default(limit, GET_MESSAGES_CREATED_AFTER_LIMIT)))))
    /\ UNCHANGED <<chats, messages, chat_seq, msg_seq>>

\* get_message_stats.  SQL aggregates over no row give NULL (count gives 0).
NULL == -2
RECURSIVE sum_length(_)
sum_length(rows) ==
    IF rows = {} THEN 0
    ELSE LET r == CHOOSE r \in rows : TRUE IN len(r.text) + sum_length(rows \ {r})

\* The filters that were supplied, joined by or_.
stats_filter_any(f) ==
    {m \in messages :
        \/ f.chat_id = None /\ f.start_date = None /\ f.end_date = None
        \/ f.chat_id # None /\ m.chat_id = f.chat_id
        \/ f.start_date # None /\ m.created_at >= f.start_date
        \/ f.end_date # None /\ m.created_at <= f.end_date}

\* The filters that were supplied, joined by and_.
stats_filter(f) ==
    {m \in messages :
        /\ f.chat_id # None => m.chat_id = f.chat_id
        /\ f.start_date # None => m.created_at >= f.start_date
        /\ f.end_date # None => m.created_at <= f.end_date}

\* func.count / func.avg / func.min / func.max of func.length(Message.text);
\* an average is kept as the pair <<sum, count>>, so 0 is <<0, 1>>.
aggregate(rows) ==
    [total_count |-> Cardinality(rows),
     avg_length |-> IF rows = {} THEN <<NULL, 1>> ELSE <<sum_length(rows), Cardinality(rows)>>,
     min_length |-> IF rows = {} THEN NULL
                    ELSE len((CHOOSE r \in rows : \A q \in rows : len(r.text) <= len(q.text)).text),
     max_length |-> IF rows = {} THEN NULL
                    ELSE len((CHOOSE r \in rows : \A q \in rows : len(r.text) >= len(q.text)).text)]

\* A result column passed on as it came.
as_is(v) == v

\* Python's `v or 0`: None and 0 both give 0.
or_0(v) == IF v = NULL \/ v = 0 THEN 0 ELSE v

\* float(stats.avg_length or 0)
float_or_0(avg) == IF or_0(avg[1]) = 0 THEN <<0, 1>> ELSE avg

\* The dict returned; avg_type is the Python type of avg_length, the literal
\* 0 of the early return or the float of the final one.
RetStats(total_count, avg_length, avg_type, min_length, max_length) ==
    [kind |-> "stats", total_count |-> total_count, avg_length |-> avg_length,
     avg_type |-> avg_type, min_length |-> min_length, max_length |-> max_length]
StatsArgs(chat_id, start_date, end_date) ==
    [chat_id |-> chat_id, start_date |-> start_date, end_date |-> end_date]

\* get_message_stats, query.count(): zero rows end the call with zeros.
CRUDMessage_get_message_stats(p, chat_id, start_date, end_date) ==
    /\ pc[p] = "idle"
    /\ LET f == StatsArgs(chat_id, start_date, end_date) IN
       IF Cardinality(stats_filter(f)) = 0
       THEN /\ Finish(p, Returned(Call("message.get_message_stats", 0, f),
                                   RetStats(0, <<0, 1>>, "int", 0, 0)))
            /\ UNCHANGED <<chats, messages, chat_seq, msg_seq>>
       ELSE Continue(p, "stats_aggregate", Loc(0, 0, f, <<>>))

\* get_message_stats, the aggregate query: a second statement, which sees
\* the rows committed when it runs.
CRUDMessage_get_message_stats_aggregate(p) ==
    /\ pc[p] = "stats_aggregate"
    /\ LET stats == aggregate(stats_filter(loc[p].arg)) IN
       Finish(p, Returned(Call("message.get_message_stats", 0, loc[p].arg),
                          RetStats(or_0(stats.total_count),
                                   float_or_0(stats.avg_length), "float",
                                   or_0(stats.min_length),
                                   or_0(stats.max_length))))
    /\ UNCHANGED <<chats, messages, chat_seq, msg_seq>>

\* ------------------------------------------------- GET /chats/{chat_id}
\* The request layer in front of get_with_messages: the page size defaults
\* to the configured default, a limit above the configured maximum is
\* rejected at the boundary, a missing chat is a 404.
MAX_MESSAGES_LIMIT == 100
DEFAULT_MESSAGES_LIMIT == 20

\* The boundary clamping the limit instead of rejecting it.
get_chat_clamped(p, chat_id, limit, offset) ==
    /\ pc[p] = "idle"
    /\ LET call == Call("endpoint.get_chat", chat_id, Paging(offset, limit, TRUE))
           page == IF default(limit, DEFAULT_MESSAGES_LIMIT) > MAX_MESSAGES_LIMIT
                   THEN MAX_MESSAGES_LIMIT ELSE default(limit, DEFAULT_MESSAGES_LIMIT)
       IN IF chat_first(chat_id) = {}
          THEN /\ Finish(p, Raised(call, "HTTP404", "chat_not_found"))
               /\ UNCHANGED <<chats, messages, chat_seq, msg_seq>>
          ELSE Continue(p, "get_chat_messages",
                        [Loc(chat_id, 0, Paging(default(offset, 0), page, TRUE), <<>>)
                           EXCEPT !.chat = chat_first(chat_id)])

get_chat(p, chat_id, limit, offset) ==
    /\ pc[p] = "idle"
    /\ LET call == Call("endpoint.get_chat", chat_id, Paging(offset, limit, TRUE)) IN
       IF default(limit, DEFAULT_MESSAGES_LIMIT) > MAX_MESSAGES_LIMIT
       THEN /\ Finish(p, Raised(call, "HTTP422", "limit_too_large"))
            /\ UNCHANGED <<chats, messages, chat_seq, msg_seq>>
       ELSE IF chat_first(chat_id) = {}
       THEN /\ Finish(p, Raised(call, "HTTP404", "chat_not_found"))
            /\ UNCHANGED <<chats, messages, chat_seq, msg_seq>>
       ELSE Continue(p, "get_chat_messages",
                     [Loc(chat_id, 0, Paging(default(offset, 0),
                                             default(limit, DEFAULT_MESSAGES_LIMIT), TRUE), <<>>)
                        EXCEPT !.chat = chat_first(chat_id)])

get_chat_query(p) ==
    /\ pc[p] = "get_chat_messages"
    /\ \E rows \in order_by(filter_chat(loc[p].chat_id), TRUE) :
         Finish(p, Returned(Call("endpoint.get_chat", loc[p].chat_id, loc[p].arg),
                            RetChatMessages(loc[p].chat,
                                offset_limit(rows, loc[p].arg.skip, loc[p].arg.limit))))
    /\ UNCHANGED <<chats, messages, chat_seq, msg_seq>>

\* ---------------------------------------------------- crud/utils.py
\* objects_data of one or two dicts.
Batches(S) == {<<a>> : a \in S} \cup {<<a, b>> : a \in S, b \in S}
RetRows(ids) == [kind |-> "rows", ids |-> ids]
\* db.commit() succeeded and a later statement of the call raised.
RaisedAfterCommit(call, exc, reason) ==
    [Raised(call, exc, reason) EXCEPT !.commits = 1, !.wrote = TRUE]

\* bulk_create(db, Chat, objects_data): Chat(**data) for each dict (Chat has
\* no validator, the title is taken as given), bulk_save_objects, commit.
\* The column is VARCHAR(200): a longer value fails the INSERT.  The
\* objects are not attached to the session by bulk_save_objects, so the
\* db.refresh that follows the commit either returns or raises.
bulk_create_Chat(p, objects_data) ==
    /\ pc[p] = "idle"
    /\ LET call == Call("utils.bulk_create_chat", 0, objects_data)
           n == Len(objects_data)
       IN IF \E i \in 1..n : len(objects_data[i]) > MAX_TITLE_LENGTH
          THEN /\ Finish(p, NotRolledBack(call, "DataError", "value_too_long"))
               /\ UNCHANGED <<chats, messages, chat_seq, msg_seq>>
          ELSE /\ chat_seq + n <= MaxChats
               /\ chat_seq' = chat_seq + n
               /\ chats' = chats \cup {ChatRow(chat_seq + i, objects_data[i], now) : i \in 1..n}
               /\ \/ Finish(p, Committed(call, RetRows({chat_seq + i : i \in 1..n})))
                  \/ Finish(p, RaisedAfterCommit(call, "InvalidRequestError", "not_persistent"))
               /\ UNCHANGED <<messages, msg_seq>>

\* bulk_create(db, Message, objects_data): Message(**data) runs the two
\* validators on every dict before anything is written; the INSERT checks
\* the foreign key of every row.
bulk_create_Message(p, objects_data) ==
    /\ pc[p] = "idle"
    /\ LET call == Call("utils.bulk_create_message", 0, objects_data)
           n == Len(objects_data)
           bad == {i \in 1..n : \/ validate_chat_id(objects_data[i].chat_id) # "ok"
                                \/ validate_text(objects_data[i].text) # "ok"}
       IN IF bad # {}
          THEN /\ Finish(p, Raised(call, "ValueError", "invalid"))
               /\ UNCHANGED <<chats, messages, chat_seq, msg_seq>>
          ELSE /\ msg_seq + n <= MaxMsgs
               /\ msg_seq' = msg_seq + n
               /\ IF \A i \in 1..n : fk_message_chat_id(objects_data[i].chat_id)
                  THEN /\ messages' = messages \cup
                             {MessageRow(msg_seq + i, objects_data[i].chat_id,
                                         strip(objects_data[i].text), now) : i \in 1..n}
                       /\ \/ Finish(p, Committed(call, RetRows({msg_seq + i : i \in 1..n})))
                          \/ Finish(p, RaisedAfterCommit(call, "InvalidRequestError",
                                                         "not_persistent"))
                  ELSE /\ messages' = messages
                       /\ Finish(p, NotRolledBack(call, "IntegrityError", "fk_violation"))
               /\ UNCHANGED <<chats, chat_seq>>

\* update_data of bulk_update: one column and its new value.
UpdateData(column, value) == [column |-> column, value |-> value]

\* bulk_update(db, Chat, objects, {"title": value}): no objects, no query;
\* otherwise one UPDATE of the rows whose id is among the objects' ids
\* (query.update goes to the table, no validator of the model runs), commit,
\* the number of rows matched is returned.
bulk_update_Chat(p, object_ids, value) ==
    /\ pc[p] = "idle"
    /\ LET call == Call("utils.bulk_update_chat", 0,
                        [ids |-> object_ids, update_data |-> UpdateData("title", value)])
           hit == {c \in chats : c.id \in object_ids}
       IN IF object_ids = {}
          THEN /\ Finish(p, Returned(call, RetInt(0)))
               /\ UNCHANGED <<chats, messages, chat_seq, msg_seq>>
          ELSE IF hit # {} /\ len(value) > MAX_TITLE_LENGTH
          THEN /\ Finish(p, NotRolledBack(call, "DataError", "value_too_long"))
               /\ UNCHANGED <<chats, messages, chat_seq, msg_seq>>
          ELSE /\ chats' = (chats \ hit) \cup {[c EXCEPT !.title = value] : c \in hit}
               /\ Finish(p, Committed(call, RetInt(Cardinality(hit))))
               /\ UNCHANGED <<messages, chat_seq, msg_seq>>

\* bulk_update(db, Message, objects, update_data) with update_data on the
\* column text or chat_id; a chat_id that no chat has fails the UPDATE on
\* the foreign key.
bulk_update_Message(p, object_ids, update_data) ==
    /\ pc[p] = "idle"
    /\ LET call == Call("utils.bulk_update_message", 0,
                        [ids |-> object_ids, update_data |-> update_data])
           hit == {m \in messages : m.id \in object_ids}
       IN IF object_ids = {}
          THEN /\ Finish(p, Returned(call, RetInt(0)))
               /\ UNCHANGED <<chats, messages, chat_seq, msg_seq>>
          ELSE IF update_data.column = "chat_id"
          THEN IF hit # {} /\ ~fk_message_chat_id(update_data.value)
               THEN /\ Finish(p, NotRolledBack(call, "IntegrityError", "fk_violation"))
                    /\ UNCHANGED <<chats, messages, chat_seq, msg_seq>>
               ELSE /\ messages' = (messages \ hit) \cup
                           {[m EXCEPT !.chat_id = update_data.value] : m \in hit}
                    /\ Finish(p, Committed(call, RetInt(Cardinality(hit))))
                    /\ UNCHANGED <<chats, chat_seq, msg_seq>>
          ELSE /\ messages' = (messages \ hit) \cup
                      {[m EXCEPT !.text = update_data.value] : m \in hit}
               /\ Finish(p, Committed(call, RetInt(Cardinality(hit))))
               /\ UNCHANGED <<chats, chat_seq, msg_seq>>

\* ------------------------------------------------------- model layer
\* Chat.create(title): strip, the two checks, then the constructor.
Chat_create(title) ==
    LET t == strip(title) IN
    IF t = <<>> THEN [ok |-> FALSE, reason |-> "title_empty", title |-> <<>>]
    ELSE IF len(t) > 200
         THEN [ok |-> FALSE, reason |-> "title_too_long", title |-> <<>>]
    ELSE [ok |-> TRUE, reason |-> "ok", title |-> t]

\* Message.create that forgets to strip before checking.
Message_create_unstripped(chat_id, text) ==
    IF chat_id <= 0 THEN [ok |-> FALSE, reason |-> "chat_id_not_positive", text |-> <<>>]
    ELSE IF text = <<>> THEN [ok |-> FALSE, reason |-> "text_empty", text |-> <<>>]
    ELSE IF len(text) > 5000
         THEN [ok |-> FALSE, reason |-> "text_too_long", text |-> <<>>]
    ELSE [ok |-> TRUE, reason |-> "ok", text |-> text]

\* Message.create(chat_id, text): chat_id positive, strip, the two checks,
\* then the constructor, whose validators run on the values it is given.
Message_create(chat_id, text) ==
    LET t == strip(text) IN
    IF chat_id <= 0 THEN [ok |-> FALSE, reason |-> "chat_id_not_positive", text |-> <<>>]
    ELSE IF t = <<>> THEN [ok |-> FALSE, reason |-> "text_empty", text |-> <<>>]
    ELSE IF len(t) > 5000
         THEN [ok |-> FALSE, reason |-> "text_too_long", text |-> <<>>]
    ELSE IF validate_chat_id(chat_id) # "ok"
         THEN [ok |-> FALSE, reason |-> validate_chat_id(chat_id), text |-> <<>>]
    ELSE IF validate_text(t) # "ok"
         THEN [ok |-> FALSE, reason |-> validate_text(t), text |-> <<>>]
    ELSE [ok |-> TRUE, reason |-> "ok", text |-> strip(t)]

\* ------------------------------------------------------------------- spec
\* One step of a session of S in the repository layer, with titles drawn
\* from Ti and texts from Tx.
CrudStep(S, Ti, Tx) ==
    \/ \E p \in S, t \in Ti : CRUDChat_create_with_validation(p, t)
    \/ \E p \in S, c \in ChatIdArgs : CRUDChat_delete_with_messages(p, c)
    \/ \E p \in S : CRUDChat_delete_commit(p)
    \/ \E p \in S, c \in ChatIdArgs, x \in Tx :
           CRUDMessage_create_with_validation(p, c, x)
    \/ \E p \in S : CRUDMessage_create_commit(p)
    \/ \E p \in S, c \in ChatIdArgs : CRUDMessage_delete_by_chat(p, c)

\* One step of a session of S in the message endpoints.
EndpointStep(S, Tx) ==
    \/ \E p \in S, c \in ChatIdArgs, x \in Tx : create_message(p, c, x)
    \/ \E p \in S : create_message_commit(p)
    \/ \E p \in S, m \in MsgIdArgs : delete_message(p, m)
    \/ \E p \in S : delete_message_commit(p)

Step(S, Ti, Tx) == CrudStep(S, Ti, Tx) \/ EndpointStep(S, Tx)

\* Concurrent sessions: any session may step at any time.
Next == Step(Sessions, Titles, Texts)

Spec == Init /\ [][Next]_vars

\* One call at a time: a single session issues every call, so each call runs
\* to completion before the next one starts.  SpecTitles tries every title,
\* SpecTexts every message text.
NextTitles == Step({"s1"}, AllTitles, Texts)

SpecTitles == Init /\ [][NextTitles]_vars

NextTexts == Step({"s1"}, Titles, AllTexts)

SpecTexts == Init /\ [][NextTexts]_vars

\* Counting next to writes: one session writes through the repository (a
\* valid title, a valid text) while the other counts and aggregates.
ReadTexts == {Letters(1)}
Optional(S) == {None} \cup S

ReadStep(S, Ids, Limits, Skips) ==
    \/ \E p \in S, c \in Ids, l \in Limits, o \in Skips :
           CRUDChat_get_with_messages(p, c, l, o)
    \/ \E p \in S : CRUDChat_get_with_messages_query(p)
    \/ \E p \in S, c \in Ids, l \in Limits, o \in Skips, d \in BOOLEAN :
           CRUDMessage_get_multi_by_chat(p, c, o, l, d)
    \/ \E p \in S, c \in Ids, l \in Limits :
           CRUDMessage_get_latest_messages(p, c, l)

CountStep(S) ==
    \/ \E p \in S, c \in ChatIdArgs : CRUDChat_get_chat_with_message_count(p, c)
    \/ \E p \in S, c \in ChatIdArgs : CRUDChat_get_message_count(p, c)
    \/ \E p \in S, k \in Optional({0}), l \in Optional({1}) :
           CRUDChat_get_multi_with_stats(p, k, l)
    \/ \E p \in S, c \in Optional(ChatIdArgs), sd \in Optional({1}), ed \in Optional({1}) :
           CRUDMessage_get_message_stats(p, c, sd, ed)
    \/ \E p \in S : CRUDMessage_get_message_stats_aggregate(p)

NextReads ==
    \/ CrudStep({"s1"}, {Letters(1)}, ReadTexts)
    \/ CountStep({"s2"})

SpecReads == Init /\ [][NextReads]_vars

\* Creation only: one session creates chats with every title and messages
\* with every text, for chat ids that exist, do not exist, or are not
\* positive.
CreateChatIds == 0..MaxChats
NextCreate ==
    \/ \E t \in AllTitles : CRUDChat_create_with_validation("s1", t)
    \/ \E c \in CreateChatIds, x \in AllTexts :
           CRUDMessage_create_with_validation("s1", c, x)
    \/ CRUDMessage_create_commit("s1")

SpecCreate == Init /\ [][NextCreate]_vars

\* Creation under a running clock.  func.now() is the start time of the
\* transaction, which begins with the first statement of the call (the
\* chat lookup of CRUDMessage.create_with_validation, the INSERT of
\* CRUDChat.create_with_validation).  The clock has microsecond resolution:
\* here every transaction that begins reads a value later than every value
\* read before, so that creations which follow one another get increasing
\* timestamps.
MaxClock == 3
Tick ==
    /\ now < MaxClock
    /\ now' = now + 1
    /\ UNCHANGED <<chats, messages, chat_seq, msg_seq, pc, loc, last>>
Fresh ==
    /\ \A c \in chats : c.created_at < now
    /\ \A m \in messages : m.created_at < now
    /\ \A p \in Sessions : pc[p] # "idle" => loc[p].ts < now
begin_chat_create(p, t) == Fresh /\ CRUDChat_create_with_validation(p, t)
begin_message_create(p, c, x) == Fresh /\ CRUDMessage_create_with_validation(p, c, x)
NextClock ==
    \/ Tick
    \/ \E p \in Sessions : begin_chat_create(p, Letters(1))
    \/ \E p \in Sessions, c \in ChatIdArgs : begin_message_create(p, c, Letters(1))
    \/ \E p \in Sessions : CRUDMessage_create_commit(p)

SpecClock == Init /\ [][NextClock]_vars

\* The bulk helpers: one session calls them with a valid value, a padded
\* one, an empty one and one that is too long.
BulkValues(max) ==
    {Letters(1), <<Run(" ", 1), Run("a", 1)>>, <<>>, Letters(max + 1)}
BulkMessages ==
    {[chat_id |-> c, text |-> x] : c \in 0..MaxChats, x \in BulkValues(MAX_TEXT_LENGTH)}
NextBulk ==
    \/ \E d \in Batches(BulkValues(MAX_TITLE_LENGTH)) : bulk_create_Chat("s1", d)
    \/ \E m \in BulkMessages :
           \/ bulk_create_Message("s1", <<m>>)
           \/ bulk_create_Message("s1", <<m, [chat_id |-> 1, text |-> Letters(1)]>>)
    \/ \E ids \in SUBSET ChatIdArgs, v \in BulkValues(MAX_TITLE_LENGTH) :
           bulk_update_Chat("s1", ids, v)
    \/ \E ids \in SUBSET MsgIdArgs, v \in BulkValues(MAX_TEXT_LENGTH) :
           bulk_update_Message("s1", ids, UpdateData("text", v))
    \/ \E ids \in SUBSET MsgIdArgs, c \in ChatIdArgs :
           bulk_update_Message("s1", ids, UpdateData("chat_id", c))

SpecBulk == Init /\ [][NextBulk]_vars

\* Paging over a chat filled one message at a time: n messages of chat 1
\* with ids 1..n and texts of 1..n characters, and one message of chat 2
\* after them.  Each is created later than the one before, or (tie) the
\* first two of chat 1 within the same reading of the clock.
MaxPage == 26
PageLimits == {None, 2, MAX_MESSAGES_LIMIT, MAX_MESSAGES_LIMIT + 50}
PageSkips == {None, 5}
\* The two chats and an id that was never handed out.
PageChatIds == 1..3
\* A date with messages of the chat on both sides of it.
PageDates == {3}
created_at_of(i, tie) == IF tie /\ i = 1 THEN 2 ELSE i

InitPages ==
    \E n \in 0..MaxPage, tie \in BOOLEAN :
        /\ chats = {ChatRow(1, Letters(1), 0), ChatRow(2, Letters(2), 0)}
        /\ messages = {MessageRow(i, 1, Letters(i), created_at_of(i, tie)) : i \in 1..n}
                          \cup {MessageRow(n + 1, 2, Letters(1), n + 1)}
        /\ chat_seq = 2
        /\ msg_seq = n + 1
        /\ pc = [p \in Sessions |-> "idle"]
        /\ loc = [p \in Sessions |-> NoLoc]
        /\ last = Returned(Call("init", 0, <<>>), RetNone)
        /\ now = n + 1

NextPages ==
    \/ ReadStep({"s1"}, PageChatIds, PageLimits, PageSkips)
    \/ \E c \in PageChatIds, l \in PageLimits, o \in PageSkips : get_chat("s1", c, l, o)
    \/ get_chat_query("s1")
    \/ \E c \in PageChatIds, d \in PageDates, l \in PageLimits :
           CRUDMessage_get_messages_created_after("s1", c, d, l)
    \/ \E c \in PageChatIds : CRUDChat_get_message_count("s1", c)
    \/ \E c \in PageChatIds : CRUDMessage_get_message_count_by_chat("s1", c)

SpecPages == InitPages /\ [][NextPages]_vars

\* Statistics over the tables of InitPages (message i has i characters and
\* was created at time i), with a window of dates that cuts on both sides.
StatsStart == 3
StatsEnd == 5
NextStats ==
    \/ \E c \in Optional(PageChatIds), sd \in Optional({StatsStart}),
          ed \in Optional({StatsEnd}) :
           CRUDMessage_get_message_stats("s1", c, sd, ed)
    \/ CRUDMessage_get_message_stats_aggregate("s1")

SpecStats == InitPages /\ [][NextStats]_vars

\* Reading a listing page by page: the caller asks get_multi_by_chat for
\* page 1, 2, ... of one size, each page a call and a query of its own,
\* until a page comes back empty, and puts the pages one after the other.
\* PaginationParams.offset gives the skip of a page.
PaginationParams_offset(page, page_size) == (page - 1) * page_size

\* What the caller holds between two pages: the number of the next page (in
\* the skip field of arg), the page size, the order, the rows so far.
PageLoc(chat_id, page, page_size, order_desc, rows) ==
    [chat_id |-> chat_id, msg_id |-> 0, arg |-> Paging(page, page_size, order_desc),
     text |-> <<>>, ts |-> now, chat |-> {}, rows |-> rows]

first_page(p, chat_id, page_size, order_desc) ==
    /\ pc[p] = "idle"
    /\ Continue(p, "pages", PageLoc(chat_id, 1, page_size, order_desc, <<>>))

next_page(p) ==
    /\ pc[p] = "pages"
    /\ LET chat_id    == loc[p].chat_id
           page       == loc[p].arg.skip
           page_size  == loc[p].arg.limit
           order_desc == loc[p].arg.order_desc
       IN \E rows \in order_by(filter_chat(chat_id), order_desc) :
            LET items == offset_limit(rows, PaginationParams_offset(page, page_size),
                                      page_size)
            IN IF items = <<>>
               THEN /\ Finish(p, Returned(Call("pages.get_multi_by_chat", chat_id,
                                               Paging(0, page_size, order_desc)),
                                          RetMessages(loc[p].rows)))
                    /\ UNCHANGED <<chats, messages, chat_seq, msg_seq>>
               ELSE Continue(p, "pages",
                             PageLoc(chat_id, page + 1, page_size, order_desc,
                                     loc[p].rows \o items))

PageSizes == {1, 2, 10}
NextPaging ==
    \/ \E c \in PageChatIds, k \in PageSizes, d \in BOOLEAN : first_page("s1", c, k, d)
    \/ next_page("s1")

SpecPaging == InitPages /\ [][NextPaging]_vars

\* ================================================================ claims
\* Trimming as the specification words it, stated without strip: what lies
\* between the first and the last character that is not whitespace.
Visible(s) == {i \in DOMAIN s : s[i].c \notin {" ", "\t"}}
Trim(s) ==
    IF Visible(s) = {} THEN <<>>
    ELSE SubSeq(s, CHOOSE i \in Visible(s) : \A j \in Visible(s) : i <= j,
                   CHOOSE i \in Visible(s) : \A j \in Visible(s) : i >= j)
\* Number of characters, counted from the last run backwards.
RECURSIVE Length(_)
Length(s) == IF s = <<>> THEN 0 ELSE Length(SubSeq(s, 1, Len(s) - 1)) + s[Len(s)].n

ChatIds == {c.id : c \in chats}
StoreUnchanged == UNCHANGED <<chats, messages, chat_seq, msg_seq>>

\* C1: for every title whose trimmed length is in 1..200, creating the chat
\* succeeds, adds exactly one chat row and nothing else, and the returned
\* chat's title is the trimmed title.
C1_CreateChatStoresTrimmedTitle ==
    [][\A p \in Sessions, t \in AllTitles :
        (CRUDChat_create_with_validation(p, t) /\ Length(Trim(t)) \in 1..200)
        => /\ last'.status = "ok"
           /\ last'.ret.kind = "chat"
           /\ \E c \in chats' :
                /\ c.id = last'.ret.id
                /\ c.title = Trim(t)
                /\ c.id \notin ChatIds
                /\ chats' = chats \cup {c}
           /\ messages' = messages]_vars

\* C1 witness: a chat was created from the padded 200-character title and
\* is stored under the trimmed one.
C1_Witness ==
    /\ last.op = "chat.create_with_validation"
    /\ last.status = "ok"
    /\ last.arg = PaddedMax(200)
    /\ \E c \in chats : c.id = last.ret.id /\ c.title = Trim(last.arg) /\ c.title # last.arg

\* C2: for every title whose trimmed length is 0 or above 200, creating the
\* chat fails with the validation error and no chat is created.
C2_CreateChatRejectsBadTitle ==
    [][\A p \in Sessions, t \in AllTitles :
        (CRUDChat_create_with_validation(p, t)
            /\ (Length(Trim(t)) = 0 \/ Length(Trim(t)) > 200))
        => /\ last'.status = "raise"
           /\ last'.exc = "ValueError"
           /\ last'.reason \in {"title_empty", "title_too_long"}
           /\ StoreUnchanged]_vars

\* C2 witness: the call made with a title of 201 characters after trimming
\* was rejected.
C2_Witness ==
    /\ last.op = "chat.create_with_validation"
    /\ last.status = "raise"
    /\ Length(Trim(last.arg)) = 201

\* C3: for a chat that exists, creating a message succeeds exactly when the
\* trimmed text has 1..5000 characters; a success adds exactly one message
\* row, with that chat_id and the trimmed text.  (A step of the call made
\* with x carries x in its outcome or in its locals; naming that first only
\* spares evaluating the call for the other texts.)
C3_CreateMessageIffValidText ==
    [][\A p \in Sessions :
        /\ \A c \in ChatIdArgs, x \in AllTexts :
             (/\ c \in ChatIds
              /\ (last'.arg = x \/ loc'[p].arg = x)
              /\ CRUDMessage_create_with_validation(p, c, x))
             => IF Length(Trim(x)) \in 1..5000
                THEN pc'[p] = "message_commit" /\ loc'[p].arg = x /\ loc'[p].chat_id = c
                ELSE last'.status = "raise" /\ last'.arg = x /\ StoreUnchanged
        /\ (CRUDMessage_create_commit(p) /\ loc[p].chat_id \in ChatIds)
             => /\ last'.status = "ok"
                /\ last'.ret.kind = "message"
                /\ Length(Trim(loc[p].arg)) \in 1..5000
                /\ \E m \in messages' :
                     /\ m.id = last'.ret.id
                     /\ m.chat_id = loc[p].chat_id
                     /\ m.text = Trim(loc[p].arg)
                     /\ m.id \notin {n.id : n \in messages}
                     /\ messages' = messages \cup {m}
                /\ chats' = chats]_vars

\* C3 witness: a message was created from the padded one-character text and
\* is stored trimmed in the chat it was sent to.
C3_Witness ==
    /\ last.op = "message.create_with_validation"
    /\ last.status = "ok"
    /\ last.arg = <<Run(" ", 2), Run("a", 1), Run("\t", 1)>>
    /\ \E m \in messages :
         m.id = last.ret.id /\ m.chat_id = last.id /\ m.text = <<Run("a", 1)>>

\* C4: when the chat does not exist and the text is invalid as well, the
\* failure reported is chat-not-found, not the text failure.
C4_MissingChatReportedFirst ==
    [][\A p \in Sessions, c \in ChatIdArgs, x \in Texts :
        (/\ CRUDMessage_create_with_validation(p, c, x)
         /\ c \notin ChatIds
         /\ Length(Trim(x)) \notin 1..5000)
        => /\ last'.status = "raise"
           /\ last'.reason = "chat_not_found"]_vars

\* C4 witness: a call with a 5001-character text on a missing chat ended
\* with chat-not-found.
C4_Witness ==
    /\ last.op = "message.create_with_validation"
    /\ last.reason = "chat_not_found"
    /\ last.id \notin ChatIds
    /\ Length(Trim(last.arg)) = 5001

\* C5: the error raised for a missing chat is of another kind than the error
\* raised for an invalid title or text: whenever a validation failure is
\* followed by a chat-not-found failure of create_with_validation or
\* delete_with_messages, the two exception classes differ.
C5_NotFoundKindDiffersFromValidation ==
    [][(/\ last.status = "raise"
        /\ last.op \in {"chat.create_with_validation", "message.create_with_validation"}
        /\ last.reason \in {"title_empty", "title_too_long", "text_empty", "text_too_long"}
        /\ last'.status = "raise"
        /\ last'.op \in {"message.create_with_validation", "chat.delete_with_messages"}
        /\ last'.reason = "chat_not_found")
       => last'.exc # last.exc]_vars

\* C6: a call that fails with a validation or a not-found error leaves the
\* stored chats and messages exactly as they were.
C6_FailedCallLeavesStore ==
    [][(/\ last'.status = "raise"
        /\ last'.reason \in {"title_empty", "title_too_long", "text_empty",
                             "text_too_long", "chat_not_found", "message_not_found"})
       => (chats' = chats /\ messages' = messages)]_vars

\* C6 witness: deleting a missing chat failed while a chat and a message
\* of it are stored.
C6_Witness ==
    /\ last.op = "chat.delete_with_messages"
    /\ last.status = "raise"
    /\ last.reason = "chat_not_found"
    /\ \E m \in messages : m.chat_id \in ChatIds

\* C7: deleting an existing chat removes the chat and exactly the messages
\* of that chat, whatever their number; a deleted id never comes back, and
\* a later create-message on it fails with chat-not-found.
C7_CascadeDelete ==
    [][\A p \in Sessions :
        /\ (CRUDChat_delete_commit(p) /\ loc[p].chat_id \in ChatIds)
           => /\ last'.status = "ok"
              /\ loc[p].chat_id \notin ChatIds'
              /\ \A m \in messages' : m.chat_id # loc[p].chat_id
              /\ \A c \in chats : c.id # loc[p].chat_id => c \in chats'
              /\ \A m \in messages : m.chat_id # loc[p].chat_id => m \in messages'
              /\ chats' \subseteq chats /\ messages' \subseteq messages
        /\ \A c \in ChatIdArgs :
             (c <= chat_seq /\ c \notin ChatIds)
             => /\ c \notin ChatIds'
                /\ \A x \in Texts :
                     CRUDMessage_create_with_validation(p, c, x)
                     => (last'.status = "raise" /\ last'.reason = "chat_not_found")]_vars

\* C7 witness: a chat was deleted, a message row id is gone, and another
\* chat with a message of its own is still stored.
C7_Witness ==
    /\ last.op = "chat.delete_with_messages"
    /\ last.status = "ok"
    /\ last.id \notin ChatIds
    /\ Cardinality(messages) < msg_seq
    /\ \E m \in messages : m.chat_id \in ChatIds

\* C8: delete_with_messages on a missing chat raises chat-not-found (neither
\* a storage error nor a returned boolean); it returns True only for a chat
\* that existed and is gone when the call returns.
C8_DeleteMissingChatIsNotFound ==
    [][\A p \in Sessions :
        /\ \A c \in ChatIdArgs :
             (CRUDChat_delete_with_messages(p, c) /\ c \notin ChatIds)
             => /\ last'.status = "raise"
                /\ last'.reason = "chat_not_found"
                /\ last'.exc \notin {"IntegrityError", "StaleDataError"}
        /\ (last'.op = "chat.delete_with_messages" /\ last'.status = "ok")
             => /\ last'.ret = RetBool(TRUE)
                /\ last'.id \in 1..chat_seq'
                /\ last'.id \notin ChatIds']_vars

\* C8 witness: a delete of an id that was never created raised.
C8_Witness ==
    /\ last.op = "chat.delete_with_messages"
    /\ last.status = "raise"
    /\ last.id > chat_seq

\* C9: every stored message belongs to a chat that is stored.
C9_NoOrphanMessages == \A m \in messages : m.chat_id \in ChatIds

\* C9 witness: an INSERT lost the race against the deletion of its chat
\* while a message of another chat is stored.
C9_Witness ==
    /\ last.reason = "fk_violation"
    /\ messages # {}

\* C10: a message creation that passed its chat lookup and commits after a
\* concurrent delete of the chat ends with chat-not-found, and no message of
\* that chat is stored.
C10_RaceEndsNotFound ==
    [][\A p \in Sessions :
        ((CRUDMessage_create_commit(p) \/ create_message_commit(p))
            /\ loc[p].chat_id \notin ChatIds)
        => /\ last'.status = "raise"
           /\ last'.reason = "chat_not_found"
           /\ \A m \in messages' : m.chat_id # loc[p].chat_id]_vars

\* ------------------------------------------------------- claims on reads
Elements(r) == {r[i] : i \in DOMAIN r}
Smaller(a, b) == IF a < b THEN a ELSE b
NewestFirst(r) == \A i, j \in DOMAIN r : i < j => r[i].created_at >= r[j].created_at
OldestFirst(r) == \A i, j \in DOMAIN r : i < j => r[i].created_at <= r[j].created_at
NoRepeat(r) == \A i, j \in DOMAIN r : i < j => r[i] # r[j]
MessagesOf(c) == {m \in messages : m.chat_id = c}
\* r is the part of a newest-first listing of the set M that follows its
\* first off rows, cut to lim rows.
NewestPage(r, M, off, lim) ==
    LET rest == M \ Elements(r) IN
    /\ Elements(r) \subseteq M
    /\ NoRepeat(r)
    /\ NewestFirst(r)
    /\ Len(r) = Smaller(lim, IF Cardinality(M) > off THEN Cardinality(M) - off ELSE 0)
    /\ r # <<>> =>
         /\ Cardinality({m \in rest : m.created_at > r[Len(r)].created_at}) <= off
         /\ Cardinality({m \in rest : m.created_at >= r[1].created_at}) >= off

C12_FetchListsNewestLast ==
    (last.op = "chat.get_with_messages" /\ last.status = "ok"
        /\ last.ret.kind = "chat_messages")
    => LET rows == last.ret.rows IN
       /\ \A i, j \in DOMAIN rows : i < j => rows[i].id < rows[j].id
       /\ (last.arg.limit = None /\ last.arg.skip = None
              /\ Cardinality(MessagesOf(last.id)) = 25)
          => /\ Len(rows) = 20
             /\ \A i \in DOMAIN rows : rows[i].text = Letters(5 + i)

\* C13: with 25 messages in a chat, listing the chat's messages with default
\* parameters returns exactly 20 messages, the 20 created last.
C13_DefaultPageIsTwentyNewest ==
    (/\ last.op \in {"chat.get_with_messages", "message.get_multi_by_chat"}
     /\ last.status = "ok"
     /\ last.ret.kind \in {"chat_messages", "messages"}
     /\ last.arg.limit = None /\ last.arg.skip = None /\ last.arg.order_desc
     /\ Cardinality(MessagesOf(last.id)) = 25)
    => /\ Len(last.ret.rows) = 20
       /\ {m.id : m \in Elements(last.ret.rows)} = 6..25

OldestPage(r, M, off, lim) ==
    LET rest == M \ Elements(r) IN
    /\ Elements(r) \subseteq M
    /\ NoRepeat(r)
    /\ OldestFirst(r)
    /\ Len(r) = Smaller(lim, IF Cardinality(M) > off THEN Cardinality(M) - off ELSE 0)
    /\ r # <<>> =>
         /\ Cardinality({m \in rest : m.created_at < r[Len(r)].created_at}) <= off
         /\ Cardinality({m \in rest : m.created_at <= r[1].created_at}) >= off
Texts_of(r) == [i \in DOMAIN r |-> r[i].text]
StrictlyIncreasing(M) ==
    \A m, q \in M : m.id < q.id => m.created_at < q.created_at

\* C15: get_multi_by_chat lists the chat's messages by created_at, ascending
\* when order_desc is false and descending when it is true, and then applies
\* skip and limit; for messages a, b, c created in that order at increasing
\* times, skip 0, limit 2, order_desc true gives [c, b], and listing all
\* with order_desc false gives [a, b, c].
C15_GetMultiByChatOrder ==
    (last.op = "message.get_multi_by_chat" /\ last.status = "ok")
    => LET rows == last.ret.rows
           M    == MessagesOf(last.id)
           skip == IF last.arg.skip = None THEN 0 ELSE last.arg.skip
           lim  == IF last.arg.limit = None THEN 100 ELSE last.arg.limit
       IN /\ last.arg.order_desc => NewestPage(rows, M, skip, lim)
          /\ ~last.arg.order_desc => OldestPage(rows, M, skip, lim)
          /\ (Cardinality(M) = 3 /\ StrictlyIncreasing(M) /\ skip = 0)
               => /\ (last.arg.order_desc /\ lim = 2)
                      => Texts_of(rows) = <<Letters(3), Letters(2)>>
                  /\ (~last.arg.order_desc /\ lim >= 3)
                      => Texts_of(rows) = <<Letters(1), Letters(2), Letters(3)>>

\* C15 witness: the three messages of a chat, created at increasing times,
\* were listed oldest first in full.
C15_Witness ==
    /\ last.op = "message.get_multi_by_chat"
    /\ last.status = "ok"
    /\ ~last.arg.order_desc
    /\ Cardinality(MessagesOf(last.id)) = 3
    /\ StrictlyIncreasing(MessagesOf(last.id))
    /\ Texts_of(last.ret.rows) = <<Letters(1), Letters(2), Letters(3)>>

\* C16: in every listing ordered by created_at, two rows with the same
\* created_at come in ascending order of id.
C16_TiesBreakByAscendingId ==
    (/\ last.op \in {"chat.get_with_messages", "message.get_multi_by_chat",
                     "message.get_latest_messages"}
     /\ last.status = "ok"
     /\ last.ret.kind \in {"chat_messages", "messages"})
    => \A i, j \in DOMAIN last.ret.rows :
          (i < j /\ last.ret.rows[i].created_at = last.ret.rows[j].created_at)
          => last.ret.rows[i].id < last.ret.rows[j].id

\* ------------------------------------------- claims on counts and stats
\* The messages a get_message_stats call with these arguments is about.
Matching(chat_id, start_date, end_date) ==
    {m \in messages :
        /\ chat_id = None \/ m.chat_id = chat_id
        /\ start_date = None \/ m.created_at >= start_date
        /\ end_date = None \/ m.created_at <= end_date}
ZeroStats(r) ==
    /\ r.op = "message.get_message_stats"
    /\ r.status = "ok"
    /\ r.ret.kind = "stats"
    /\ r.ret.total_count = 0
    /\ r.ret.avg_length[1] = 0 /\ r.ret.avg_length[2] = 1
    /\ r.ret.min_length = 0
    /\ r.ret.max_length = 0

\* C17: get_message_stats returns total_count, avg_length, min_length and
\* max_length all equal to the number 0 whenever no message matches the
\* filters, both when the count query finds none and when the messages
\* counted are gone by the time of the aggregate query.
C17_StatsOfNothingAreZero ==
    [][\A p \in Sessions :
        /\ \A c \in Optional(ChatIdArgs), sd \in Optional({1}), ed \in Optional({1}) :
             (Matching(c, sd, ed) = {} /\ CRUDMessage_get_message_stats(p, c, sd, ed))
             => (ZeroStats(last') /\ pc'[p] = "idle")
        /\ (/\ pc[p] = "stats_aggregate"
            /\ Matching(loc[p].arg.chat_id, loc[p].arg.start_date, loc[p].arg.end_date) = {}
            /\ CRUDMessage_get_message_stats_aggregate(p))
             => ZeroStats(last')]_vars

\* C17 witness: zeros that came from the aggregate query (the float
\* average), for an existing chat: its messages were counted and then
\* deleted before the aggregate ran.
C17_Witness ==
    /\ ZeroStats(last)
    /\ last.ret.avg_type = "float"
    /\ last.arg.chat_id \in ChatIds
    /\ MessagesOf(last.arg.chat_id) = {}

\* C18: get_message_count and get_chat_with_message_count return the number
\* of messages stored for the chat when the query runs, whatever was
\* created and deleted before; get_message_count returns 0 for a chat
\* without messages and for a chat that does not exist, and
\* get_chat_with_message_count returns None for a chat that does not exist.
C18_CountsAreLive ==
    [][\A p \in Sessions, c \in ChatIdArgs :
        /\ CRUDChat_get_message_count(p, c)
             => /\ last'.op = "chat.get_message_count"
                /\ last'.status = "ok"
                /\ last'.ret.kind = "int"
                /\ last'.ret.v = Cardinality(MessagesOf(c))
                /\ c \notin ChatIds => last'.ret.v = 0
        /\ CRUDChat_get_chat_with_message_count(p, c)
             => /\ last'.op = "chat.get_chat_with_message_count"
                /\ last'.status = "ok"
                /\ IF c \in ChatIds
                   THEN /\ last'.ret.kind = "chat_count"
                        /\ last'.ret.message_count = Cardinality(MessagesOf(c))
                        /\ \E ch \in chats : ch.id = c /\ last'.ret.chat = {ch}
                   ELSE last'.ret.kind = "none"]_vars

\* C18 witness: two messages were created, one of them was deleted again,
\* and a chat was returned with a count of 1.
C18_Witness ==
    /\ last.op = "chat.get_chat_with_message_count"
    /\ last.status = "ok"
    /\ last.ret.kind = "chat_count"
    /\ msg_seq = 2
    /\ Cardinality(messages) = 1
    /\ last.ret.message_count = 1

\* ------------------------------------------------ claims on transactions
\* C19: every mutating repository call commits exactly once when it
\* succeeds, and when it fails after a write was started, db.rollback() has
\* run before the error reaches the caller.
C19_CommitOnceOrRollBack ==
    last.op \in {"chat.create_with_validation", "message.create_with_validation",
                 "chat.delete_with_messages", "message.delete_by_chat"}
    => /\ last.status = "ok" => last.commits = 1
       /\ (last.status = "raise" /\ last.wrote) => last.rollback

\* ---------------------------------------- claims on the two layers
\* C20: the model-layer constructors and the repository creators validate
\* alike: CRUDChat.create_with_validation accepts a title exactly when
\* Chat.create does and stores the title Chat.create produces;
\* CRUDMessage.create_with_validation on an existing chat accepts a text
\* exactly when Message.create does and stores the text Message.create
\* produces; a chat_id that is not positive is rejected by both.
\* (The antecedents name the call's argument before the action so that TLC
\* evaluates the action for the inputs of the step only.)
C20_LayersValidateAlike ==
    [][\A p \in Sessions :
        /\ \A t \in AllTitles :
             (/\ last'.op = "chat.create_with_validation"
              /\ last'.arg = t
              /\ CRUDChat_create_with_validation(p, t))
             => /\ (last'.status = "ok") = Chat_create(t).ok
                /\ last'.status = "ok"
                     => \E ch \in chats' \ chats :
                           /\ ch.id = last'.ret.id
                           /\ ch.title = Chat_create(t).title
        /\ \A c \in CreateChatIds, x \in AllTexts :
             (/\ pc[p] = "idle"
              /\ last'.arg = x \/ loc'[p].arg = x
              /\ CRUDMessage_create_with_validation(p, c, x))
             => /\ c \in ChatIds
                     => IF Message_create(c, x).ok
                        THEN /\ pc'[p] = "message_commit"
                             /\ loc'[p].text = Message_create(c, x).text
                        ELSE /\ pc'[p] = "idle"
                             /\ last'.status = "raise"
                /\ c <= 0
                     => /\ ~Message_create(c, x).ok
                        /\ pc'[p] = "idle"
                        /\ last'.status = "raise"
        /\ (CRUDMessage_create_commit(p) /\ last'.status = "ok")
             => \E m \in messages' \ messages :
                   /\ m.id = last'.ret.id
                   /\ Message_create(loc[p].chat_id, loc[p].arg).ok
                   /\ m.text = Message_create(loc[p].chat_id, loc[p].arg).text]_vars

\* C20 witness: a message whose text came in padded to the maximum length
\* is stored in an existing chat with the text Message.create produces.
C20_Witness ==
    /\ last.op = "message.create_with_validation"
    /\ last.status = "ok"
    /\ last.arg = PaddedMax(5000)
    /\ last.arg # Message_create(last.id, last.arg).text
    /\ \E m \in messages :
          /\ m.id = last.ret.id
          /\ m.chat_id \in ChatIds
          /\ m.text = Message_create(last.id, last.arg).text

\* ------------------------------------------------ claims on deletions
\* C21: deleting a single message removes exactly that message: the chats
\* (ids, titles, created_at) and every other message stay as they were;
\* deleting a message id that does not exist fails with not-found (404) and
\* changes nothing.
C21_DeleteMessageRemovesOnlyIt ==
    [][\A p \in Sessions :
        /\ \A m \in MsgIdArgs :
             (m \notin {r.id : r \in messages} /\ delete_message(p, m))
             => /\ last'.op = "endpoint.delete_message"
                /\ last'.id = m
                /\ last'.status = "raise"
                /\ last'.exc = "HTTP404"
                /\ StoreUnchanged
        /\ delete_message_commit(p)
             => /\ chats' = chats
                /\ messages' = {r \in messages : r.id # loc[p].msg_id}
                /\ (\E r \in messages : r.id = loc[p].msg_id)
                     => (last'.status = "ok" /\ last'.id = loc[p].msg_id)]_vars

\* C21 witness: of two stored messages one was deleted through the
\* endpoint; the other one and its chat are still stored.
C21_Witness ==
    /\ last.op = "endpoint.delete_message"
    /\ last.status = "ok"
    /\ msg_seq = 2
    /\ \E r \in messages :
          /\ r.id # last.id
          /\ r.chat_id \in ChatIds
          /\ messages = {r}

\* ------------------------------------------------ claims on stored rows
\* C22: in every reachable state every stored chat title equals its own
\* trim and has 1..200 characters, and every stored message text equals its
\* own trim and has 1..5000 characters, whichever write path stored it.
C22_StoredValuesAreTrimmed ==
    /\ \A c \in chats : Trim(c.title) = c.title /\ Length(c.title) \in 1..200
    /\ \A m \in messages : Trim(m.text) = m.text /\ Length(m.text) \in 1..5000

\* C23: once a message is stored, its chat_id does not change for as long
\* as a message with its id is stored, whatever operation runs.
C23_NoReparenting ==
    [][\A m \in messages, n \in messages' : m.id = n.id => m.chat_id = n.chat_id]_vars

\* C24: created_at follows insertion order: a row with a smaller id than
\* another row of its table has a created_at that is not later, also when
\* the two were created by overlapping transactions.
C24_CreatedAtFollowsIds ==
    /\ \A a, b \in chats : a.id < b.id => a.created_at <= b.created_at
    /\ \A a, b \in messages : a.id < b.id => a.created_at <= b.created_at

\* ------------------------------------------------ claims on statistics
Lengths(M) == {Length(m.text) : m \in M}
Least(S) == CHOOSE x \in S : \A y \in S : x <= y
Greatest(S) == CHOOSE x \in S : \A y \in S : x >= y

\* C25: get_message_stats computes total_count, min_length and max_length
\* over exactly the messages that satisfy every filter supplied (chat_id
\* equal, created_at >= start_date, created_at <= end_date), and over all
\* messages when none is supplied.
C25_StatsFiltersAreConjunctive ==
    (last.op = "message.get_message_stats" /\ last.status = "ok")
    => LET M == Matching(last.arg.chat_id, last.arg.start_date, last.arg.end_date) IN
       /\ last.ret.total_count = Cardinality(M)
       /\ M # {} => /\ last.ret.min_length = Least(Lengths(M))
                    /\ last.ret.max_length = Greatest(Lengths(M))
       /\ (last.arg.chat_id = None /\ last.arg.start_date = None
              /\ last.arg.end_date = None)
          => last.ret.total_count = Cardinality(messages)

\* C25 witness: with all three filters supplied, the statistics of a chat
\* of at least 6 messages count the 3 messages inside the window.
C25_Witness ==
    /\ last.op = "message.get_message_stats"
    /\ last.status = "ok"
    /\ last.arg.chat_id = 1 /\ last.arg.start_date = 3 /\ last.arg.end_date = 5
    /\ Cardinality(MessagesOf(1)) >= 6
    /\ Cardinality(messages) > Cardinality(MessagesOf(1))
    /\ last.ret.total_count = 3
    /\ last.ret.min_length = 3
    /\ last.ret.max_length = 5

\* C26: get_multi_with_stats returns the chats ordered by created_at
\* descending, after skip and limit, and each returned row carries the
\* chat's current message count and its most recently created message, or
\* no last message when the chat has none.
C26_ChatsWithStats ==
    last.op = "chat.get_multi_with_stats"
    => /\ last.status = "ok"
       /\ last.ret.kind = "chat_stats"
       /\ NewestFirst([i \in DOMAIN last.ret.rows |-> last.ret.rows[i].chat])
       /\ \A i \in DOMAIN last.ret.rows :
             LET row == last.ret.rows[i]
                 M == MessagesOf(row.chat.id)
             IN /\ row.chat \in chats
                /\ row.message_count = Cardinality(M)
                /\ IF M = {} THEN row.last_message = {}
                   ELSE \E m \in M : /\ row.last_message = {m}
                                      /\ \A q \in M : q.created_at <= m.created_at

\* C27: delete_by_chat(chat_id) removes every message whose chat_id is the
\* argument and returns how many it removed, 0 when the chat has no
\* message or does not exist; the chats and the messages of other chats
\* stay as they were.
C27_DeleteByChat ==
    [][\A p \in Sessions, c \in ChatIdArgs :
        CRUDMessage_delete_by_chat(p, c)
        => /\ last'.op = "message.delete_by_chat"
           /\ last'.id = c
           /\ last'.status = "ok"
           /\ last'.ret.kind = "int"
           /\ last'.ret.v = Cardinality(messages) - Cardinality(messages')
           /\ last'.ret.v = Cardinality(MessagesOf(c))
           /\ c \notin ChatIds => last'.ret.v = 0
           /\ \A m \in messages : (m \in messages') = (m.chat_id # c)
           /\ messages' \subseteq messages
           /\ chats' = chats]_vars

\* C27 witness: delete_by_chat removed the one message of a chat; the chat
\* is still stored and so is the message of the other chat.
C27_Witness ==
    /\ last.op = "message.delete_by_chat"
    /\ last.status = "ok"
    /\ last.ret.v = 1
    /\ last.id \in ChatIds
    /\ MessagesOf(last.id) = {}
    /\ \E m \in messages : m.chat_id # last.id

\* The limit a listing applies when the caller gives none.
DefaultLimit(op) ==
    IF op \in {"chat.get_with_messages", "message.get_latest_messages"} THEN 20 ELSE 100

\* C28: every message returned by get_with_messages, get_multi_by_chat,
\* get_latest_messages or get_messages_created_after for a chat is a stored
\* message of that chat, the result has at most `limit` elements, and
\* get_multi_by_chat on a chat that does not exist returns the empty list.
C28_ListingsStayInTheChat ==
    (/\ last.op \in {"chat.get_with_messages", "message.get_multi_by_chat",
                     "message.get_latest_messages",
                     "message.get_messages_created_after"}
     /\ last.ret.kind \in {"chat_messages", "messages"})
    => /\ last.status = "ok"
       /\ \A i \in DOMAIN last.ret.rows :
             /\ last.ret.rows[i].chat_id = last.id
             /\ last.ret.rows[i] \in messages
       /\ Len(last.ret.rows)
             <= (IF last.arg.limit = None THEN DefaultLimit(last.op) ELSE last.arg.limit)
       /\ (last.op = "message.get_multi_by_chat" /\ last.id \notin ChatIds)
             => last.ret.rows = <<>>

\* C28 witness: get_messages_created_after with limit 2 returned two
\* messages of a chat that has more than two after the date, while a
\* message of another chat created after the date is stored as well.
C28_Witness ==
    /\ last.op = "message.get_messages_created_after"
    /\ last.status = "ok"
    /\ last.arg.limit = 2
    /\ Len(last.ret.rows) = 2
    /\ Cardinality({m \in MessagesOf(last.id) : m.created_at > last.arg.after}) > 2
    /\ \E m \in messages : m.chat_id # last.id /\ m.created_at > last.arg.after

\* C29: on an unchanged store, for every page size k >= 1, the pages
\* get_multi_by_chat(chat, skip = 0, limit = k), (skip = k, limit = k), ...
\* put one after the other hold every message of the chat exactly once, in
\* the requested order, also when messages share a created_at.
C29_PagesCoverTheListingOnce ==
    last.op = "pages.get_multi_by_chat"
    => LET rows == last.ret.rows IN
       /\ Elements(rows) = MessagesOf(last.id)
       /\ NoRepeat(rows)
       /\ Len(rows) = Cardinality(MessagesOf(last.id))
       /\ IF last.arg.order_desc THEN NewestFirst(rows) ELSE OldestFirst(rows)

\* The same for chats whose messages all differ in created_at.
C29_PagesCoverWithoutTies ==
    (/\ last.op = "pages.get_multi_by_chat"
     /\ \A m, q \in MessagesOf(last.id) : m.created_at = q.created_at => m = q)
    => LET rows == last.ret.rows IN
       /\ Elements(rows) = MessagesOf(last.id)
       /\ NoRepeat(rows)
       /\ IF last.arg.order_desc THEN NewestFirst(rows) ELSE OldestFirst(rows)

\* Two outcomes, one after the other on the same tables, of two different
\* ones of the three newest-first listings, asked for the same existing
\* chat with the same limit n and no rows skipped.
SameListingTwice(a, b) ==
    /\ a.op \in {"chat.get_with_messages", "message.get_multi_by_chat",
                 "message.get_latest_messages"}
    /\ b.op \in {"chat.get_with_messages", "message.get_multi_by_chat",
                 "message.get_latest_messages"}
    /\ a.op # b.op
    /\ a.id = b.id
    /\ a.ret.kind \in {"chat_messages", "messages"}
    /\ b.ret.kind \in {"chat_messages", "messages"}
    /\ a.arg.order_desc /\ b.arg.order_desc
    /\ a.arg.skip \in {None, 0} /\ b.arg.skip \in {None, 0}
    /\ a.arg.limit # None /\ a.arg.limit = b.arg.limit

\* Two outcomes of the two counting calls for the same chat.
SameCountTwice(a, b) ==
    /\ a.op \in {"chat.get_message_count", "message.get_message_count_by_chat"}
    /\ b.op \in {"chat.get_message_count", "message.get_message_count_by_chat"}
    /\ a.op # b.op
    /\ a.id = b.id

\* C30: on one store state, get_latest_messages(chat, n),
\* get_multi_by_chat(chat, skip = 0, limit = n, order_desc = True) and the
\* messages of get_with_messages(chat, limit = n, offset = 0) for an existing
\* chat are the same sequence, and CRUDChat.get_message_count(chat) equals
\* CRUDMessage.get_message_count_by_chat(chat).
C30_DuplicatePathsAgree ==
    [][messages' = messages =>
        /\ SameListingTwice(last, last') => last'.ret.rows = last.ret.rows
        /\ SameCountTwice(last, last') => last'.ret.v = last.ret.v]_vars

\* The same for chats whose messages all differ in created_at.
C30_PathsAgreeWithoutTies ==
    [][(/\ messages' = messages
        /\ \A m, q \in MessagesOf(last'.id) : m.created_at = q.created_at => m = q) =>
        /\ SameListingTwice(last, last') => last'.ret.rows = last.ret.rows
        /\ SameCountTwice(last, last') => last'.ret.v = last.ret.v]_vars

====
